---- MODULE Spec2Model ----
(***************************************************************************)
(* groppy: update several git repositories in parallel (src/src/main.rs).  *)
(*                                                                         *)
(* The model has one supervisor (main), a bounded crossbeam channel, a     *)
(* pool of worker threads that each run update_repo on the paths they      *)
(* receive, the three atomic counters of Stats, the terminal output, and   *)
(* the on-disk state of the repositories the workers operate on.  Every    *)
(* access to something two threads share (channel, counters, terminal,     *)
(* repository on disk) is one step, so the interleavings are those of the  *)
(* program's threads; a call that touches nothing another thread writes   *)
(* (Repository::open, the lookup of the upstream name, the tree diff) is   *)
(* taken together with the next step of the same thread.  The calls into   *)
(* git2 are modelled by their effect on the repository: each fallible call *)
(* either fails (the `?` returns the error to the worker loop) or has its  *)
(* effect.                                                                 *)
(***************************************************************************)
EXTENDS Integers, Sequences, FiniteSets, Bags, TLC

\* Largest value of the -j option explored.
MaxThreads == 2
\* Largest number of directory arguments explored.
MaxInputs == 2
\* Largest run explored: threads plus directory arguments.
MaxLoad == 4
\* Largest number of git2 calls that fail in one run.
MaxFailures == 1
\* Largest total for which the percent signals are computed.
MaxTotal == 50

(***************************************************************************)
(* The file system the run is given.  A is a repository; B is a plain      *)
(* directory holding a repository B/x, a plain directory B/y, which holds  *)
(* a repository B/y/z, and a file B/f; M does not exist.                   *)
(***************************************************************************)
Existing ==
    {"A", "A/.git", "B", "B/x", "B/x/.git", "B/y", "B/y/z", "B/y/z/.git", "B/f"}
Directories ==
    {"A", "A/.git", "B", "B/x", "B/x/.git", "B/y", "B/y/z", "B/y/z/.git"}
InputDirs == {"A", "B", "B/x", "M"}

\* Path::exists
exists(path) == path \in Existing

\* Path::is_dir
is_dir(path) == path \in Directories

\* fs::read_dir(dir): the entries of dir, or <<>> when the call is an Err
\* (dir is not a directory), which the caller's `if let Ok` skips.
read_dir(dir) ==
    CASE dir = "A" -> <<"A/.git">>
      [] dir = "B" -> <<"B/x", "B/y", "B/f">>
      [] dir = "B/x" -> <<"B/x/.git">>
      [] dir = "B/y" -> <<"B/y/z">>
      [] dir = "B/y/z" -> <<"B/y/z/.git">>
      [] OTHER -> <<>>

\* fn is_git_repo(path): path.join(".git").exists()
is_git_repo(path) == exists(path \o "/.git")

\* The inner loop of find_repos: the entries that are directories and
\* repositories, in iteration order.
RECURSIVE child_repos(_)
child_repos(entries) ==
    IF entries = <<>> THEN <<>>
    ELSE (IF is_dir(Head(entries)) /\ is_git_repo(Head(entries))
          THEN <<Head(entries)>> ELSE <<>>) \o child_repos(Tail(entries))

\* A find_repos that leaves out a repository it has already found.
RECURSIVE find_repos_unique(_)
find_repos_unique(dirs) ==
    IF dirs = <<>> THEN <<>>
    ELSE LET front == find_repos_unique(SubSeq(dirs, 1, Len(dirs) - 1))
             dir == dirs[Len(dirs)]
             found == IF ~exists(dir) THEN <<>>
                      ELSE (IF is_git_repo(dir) THEN <<dir>> ELSE <<>>)
                           \o child_repos(read_dir(dir))
         IN  front \o SelectSeq(found,
                                LAMBDA r : \A k \in DOMAIN front : front[k] # r)

\* fn find_repos(directories)
RECURSIVE find_repos(_)
find_repos(dirs) ==
    IF dirs = <<>> THEN <<>>
    ELSE LET dir == Head(dirs) IN
         (IF ~exists(dir) THEN <<>>
          ELSE (IF is_git_repo(dir) THEN <<dir>> ELSE <<>>)
               \o child_repos(read_dir(dir)))
         \o find_repos(Tail(dirs))

(***************************************************************************)
(* f64 arithmetic, as far as update_progress uses it.  A non-negative f64  *)
(* is [int, frac, exp]: its value is                                       *)
(*   (int + frac[1]/B + frac[2]/B^2 + frac[3]/B^3 + frac[4]/B^4) * 2^exp   *)
(* with B = 2^13, so that the 53-bit significand of a normal number is     *)
(* int = 1 and the 52 bits of frac.  Every operation rounds its exact      *)
(* result to the nearest value with a 53-bit significand, ties to the      *)
(* even one.                                                               *)
(***************************************************************************)
B == 2^13

\* The values of the representation.
F64 == [int : Nat, frac : Seq(Nat), exp : Int]

\* The same value with every element of frac below B: the carries are
\* passed upwards.
propagate[int \in Nat, frac \in Seq(Nat), exp \in Int] ==
    LET c4 == frac[4] \div B
        c3 == (frac[3] + c4) \div B
        c2 == (frac[2] + c3) \div B
        c1 == (frac[1] + c2) \div B
    IN  [int |-> int + c1,
         frac |-> <<(frac[1] + c2) % B, (frac[2] + c3) % B,
                    (frac[3] + c4) % B, frac[4] % B>>,
         exp |-> exp]

\* The least s with c * 2^s >= t, for 0 < c <= t.
norm_shift[c \in Nat, t \in Nat] ==
    IF c >= t THEN 0 ELSE 1 + norm_shift[2 * c, t]

\* The number of bits of n.
bit_length[n \in Nat] == IF n = 0 THEN 0 ELSE 1 + bit_length[n \div 2]

\* current as f64 / total as f64, for 0 <= current <= total, total >= 1
\* (both conversions are exact): the quotient is scaled into [1, 2), its
\* 52 fraction bits come from the long division, and the next bit and the
\* remainder decide the rounding.
f64_div[current \in Nat, total \in Nat] ==
    IF current = 0 THEN [int |-> 0, frac |-> <<0, 0, 0, 0>>, exp |-> 0]
    ELSE LET s == norm_shift[current, total]
             r0 == current * 2^s - total
             r1 == (r0 * B) % total
             r2 == (r1 * B) % total
             r3 == (r2 * B) % total
             r4 == (r3 * B) % total
             last == (r3 * B) \div total
             guard == (2 * r4) \div total
             sticky == (2 * r4) % total # 0
             up == guard = 1 /\ (sticky \/ last % 2 = 1)
         IN  propagate[1, <<(r0 * B) \div total, (r1 * B) \div total,
                            (r2 * B) \div total,
                            last + (IF up THEN 1 ELSE 0)>>, 0 - s]

\* q * 100.0: the exact product has k bits more than the significand
\* holds; they are dropped and the first of them and the rest decide the
\* rounding.
f64_mul100[q \in F64] ==
    IF q.int = 0 THEN q
    ELSE LET exact == propagate[q.int * 100,
                                [i \in 1..4 |-> q.frac[i] * 100], q.exp]
             k == bit_length[exact.int] - bit_length[q.int]
             low == exact.frac[4]
             kept == low \div 2^k
             guard == ((2 * low) \div 2^k) % 2
             sticky == (2 * low) % 2^k # 0
             up == guard = 1 /\ (sticky \/ kept % 2 = 1)
         IN  propagate[exact.int,
                       <<exact.frac[1], exact.frac[2], exact.frac[3],
                         (kept + (IF up THEN 1 ELSE 0)) * 2^k>>, q.exp]

\* x as u32, for 0 <= x < 2^17 and x.exp <= 0: the integer part.
as_u32[x \in F64] == (x.int * B + x.frac[1]) \div (B * 2^(0 - x.exp))

\* fn update_progress(current, total): the OSC 9;4;1;<percent> signal, with
\* percent = (current as f64 / total as f64 * 100.0) as u32.
update_progress(current, total) ==
    <<"9;4;1", as_u32[f64_mul100[f64_div[current, total]]]>>

(***************************************************************************)
(* Repositories.  Commits are c1 and c2; a tree maps each path to the      *)
(* blob it holds ("-" when the path is absent).                            *)
(***************************************************************************)
Files == {"a", "b", "c"}
TreeOf(oid) ==
    IF oid = "c1" THEN [f \in Files |-> IF f = "c" THEN "-" ELSE "v1"]
    ELSE [f \in Files |-> IF f = "b" THEN "v1" ELSE "v2"]

\* repo.diff_tree_to_tree(old, new).deltas().len()
diff_tree_to_tree(old_tree, new_tree) ==
    Cardinality({f \in Files : old_tree[f] # new_tree[f]})

\* The states a repository can be in when the run starts: its local branch
\* at c1, the remote-tracking ref not yet fetched, and
\*   remote    the commit the branch has on origin,
\*   worktree  the commit the checked-out files match, or "edited",
\*   untracked / ignored  a file of that kind lies in the working tree,
\*   upstream  the branch has a configured upstream.
Clean(remote) ==
    [head |-> "c1", worktree |-> "c1", untracked |-> FALSE, ignored |-> FALSE,
     tracking |-> "c1", remote |-> remote, upstream |-> TRUE]
DiskStates ==
    { Clean("c2"), Clean("c1"),
      [Clean("c2") EXCEPT !.untracked = TRUE],
      [Clean("c2") EXCEPT !.worktree = "edited"],
      [Clean("c2") EXCEPT !.ignored = TRUE],
      [Clean("c2") EXCEPT !.upstream = FALSE] }

\* The states explored for the repository at path: all of them for A; for
\* B/x, which only ever runs beside A or beside itself, clean and behind
\* its upstream.
DiskStatesOf(path) == IF path = "A" THEN DiskStates ELSE {Clean("c2")}

\* The repositories in which a git2 call can fail: A, whose start states
\* include the one B/x starts in.
Fallible == {"A"}

\* repo.statuses(opts): the kinds of entry the status list holds.
statuses(r, include_untracked, include_ignored) ==
    (IF r.worktree # r.head THEN {"modified"} ELSE {})
    \cup (IF r.untracked /\ include_untracked THEN {"untracked"} ELSE {})
    \cup (IF r.ignored /\ include_ignored THEN {"ignored"} ELSE {})

\* An is_repo_clean that leaves untracked files out of the status.
is_repo_clean_tracked_only(r) == statuses(r, FALSE, FALSE) = {}

\* fn is_repo_clean(repo)
is_repo_clean(r) == statuses(r, TRUE, FALSE) = {}


(***************************************************************************)
(* State.                                                                  *)
(***************************************************************************)
VARIABLES
    threads,      \* args.threads
    directories,  \* args.directories
    pc,           \* the supervisor's position in main
    repos,        \* the Vec find_repos returned
    total,        \* stats.total
    checked,      \* stats.checked
    updated,      \* stats.updated
    unclean,      \* stats.unclean
    chan,         \* the entries in the channel, oldest first
    capacity,     \* the channel's capacity
    sender,       \* TRUE while the Sender has not been dropped
    sent,         \* how many elements of repos the send loop has passed
    spawned,      \* handles.len()
    joined,       \* how many handles the join loop has passed
    worker,       \* each worker thread's position and locals
    disk,         \* the on-disk state of each repository the run finds
    disk0,        \* disk as it was when the run started
    progress,     \* the OSC 9;4 signals written to the terminal, in order
    printed,      \* the lines written to the terminal, in order
    pb,           \* the ProgressBar: its message and the calls of finish
    task          \* per queue entry, what has been done with it so far

vars == <<threads, directories, pc, repos, total, checked, updated, unclean,
          chan, capacity, sender, sent, spawned, joined, worker, disk,
          disk0, progress, printed, pb, task>>

Workers == 1..MaxThreads

\* A worker thread that is not running update_repo.
Thread(at) ==
    [pc |-> at, id |-> 0, path |-> "", checked |-> 0, old_oid |-> "",
     upstream_oid |-> "", files_changed |-> 0]

\* What is recorded about a queue entry: how often it was received, the
\* status its clean check saw, its fetches and its writes of HEAD and of
\* the working tree, its increments of the counters, the outcome
\* update_repo returned with and, for Updated, the old and new commit and
\* the count it reported.
Fresh ==
    [takes |-> 0, status |-> "", fetches |-> 0, head_writes |-> 0,
     worktree_writes |-> 0, inc_updated |-> 0, inc_unclean |-> 0,
     outcome |-> "", old |-> "", new |-> "", files_changed |-> 0]

Elements(s) == {s[i] : i \in DOMAIN s}

RECURSIVE SeqsUpTo(_, _)
SeqsUpTo(S, n) ==
    IF n = 0 THEN {<<>>}
    ELSE SeqsUpTo(S, n - 1) \cup
         {Append(s, x) : s \in {q \in SeqsUpTo(S, n - 1) : Len(q) = n - 1}, x \in S}

Init ==
    /\ threads \in 0..MaxThreads
    /\ directories \in SeqsUpTo(InputDirs, MaxInputs)
    /\ threads + Len(directories) <= MaxLoad
    /\ disk \in [Elements(find_repos(directories)) -> DiskStates]
    /\ \A path \in DOMAIN disk : disk[path] \in DiskStatesOf(path)
    /\ disk0 = disk
    /\ pc = "start"
    /\ repos = <<>>
    /\ total = 0 /\ checked = 0 /\ updated = 0 /\ unclean = 0
    /\ chan = <<>> /\ capacity = 0 /\ sender = FALSE /\ sent = 0
    /\ spawned = 0 /\ joined = 0
    /\ worker = [w \in Workers |-> Thread("unspawned")]
    /\ progress = <<>> /\ printed = <<>>
    /\ pb = [message |-> <<>>, finished |-> 0]
    /\ task = <<>>

(***************************************************************************)
(* The supervisor: fn main.                                                *)
(***************************************************************************)
\* A start that does not test the thread count.
Main_CheckThreads_unchecked ==
    /\ pc = "start"
    /\ pc' = "find"
    /\ UNCHANGED <<threads, directories, disk0, repos, total, checked,
                   updated, unclean, chan, capacity, sender, sent, spawned,
                   joined, worker, disk, progress, printed, pb, task>>

\* if args.threads == 0 { bail!(...) }
Main_CheckThreads ==
    /\ pc = "start"
    /\ pc' = IF threads = 0 THEN "fatal" ELSE "find"
    /\ UNCHANGED <<threads, directories, disk0, repos, total, checked,
                   updated, unclean, chan, capacity, sender, sent, spawned,
                   joined, worker, disk, progress, printed, pb, task>>

\* let repos = find_repos(&args.directories);
Main_FindRepos ==
    /\ pc = "find"
    /\ repos' = find_repos(directories)
    /\ pc' = "found"
    /\ UNCHANGED <<threads, directories, disk0, total, checked, updated,
                   unclean, chan, capacity, sender, sent, spawned, joined,
                   worker, disk, progress, printed, pb, task>>

\* An empty discovery that goes on to the done signal and the summary.
Main_NoRepos_summarised ==
    /\ pc = "found"
    /\ repos = <<>>
    /\ printed' = Append(printed, <<"No repositories found">>)
    /\ pc' = "done_signal"
    /\ UNCHANGED <<threads, directories, disk0, repos, total, checked,
                   updated, unclean, chan, capacity, sender, sent, spawned,
                   joined, worker, disk, progress, pb, task>>

\* if repos.is_empty() { println!("No repositories found"); return Ok(()) }
Main_NoRepos ==
    /\ pc = "found"
    /\ repos = <<>>
    /\ printed' = Append(printed, <<"No repositories found">>)
    /\ pc' = "exit"
    /\ UNCHANGED <<threads, directories, disk0, repos, total, checked,
                   updated, unclean, chan, capacity, sender, sent, spawned,
                   joined, worker, disk, progress, pb, task>>

\* A setup whose channel holds one entry.
Main_Setup_bounded_one ==
    /\ pc = "found"
    /\ repos # <<>>
    /\ total' = Len(repos)
    /\ checked' = 0 /\ updated' = 0 /\ unclean' = 0
    /\ chan' = <<>> /\ capacity' = 1 /\ sender' = TRUE
    /\ pb' = [pb EXCEPT !.message = <<0, Len(repos)>>]
    /\ task' = [i \in 1..Len(repos) |-> Fresh]
    /\ directories' = <<>>
    /\ pc' = "reset"
    /\ UNCHANGED <<threads, repos, disk0, sent, spawned, joined, worker, disk,
                   progress, printed>>

\* Stats::new(total_repos), channel::bounded(total_repos), the spinner and
\* its first message.  args.directories is not read again and is dropped
\* from the state here.
Main_Setup ==
    /\ pc = "found"
    /\ repos # <<>>
    /\ total' = Len(repos)
    /\ checked' = 0 /\ updated' = 0 /\ unclean' = 0
    /\ chan' = <<>> /\ capacity' = Len(repos) /\ sender' = TRUE
    /\ pb' = [pb EXCEPT !.message = <<0, Len(repos)>>]
    /\ task' = [i \in 1..Len(repos) |-> Fresh]
    /\ directories' = <<>>
    /\ pc' = "reset"
    /\ UNCHANGED <<threads, repos, disk0, sent, spawned, joined, worker, disk,
                   progress, printed>>

\* A start of the work that writes no signal.
Main_InitialProgress_silent ==
    /\ pc = "reset"
    /\ pc' = "send"
    /\ UNCHANGED <<threads, directories, disk0, repos, total, checked,
                   updated, unclean, chan, capacity, sender, sent, spawned,
                   joined, worker, disk, progress, printed, pb, task>>

\* update_progress(0, total_repos)
Main_InitialProgress ==
    /\ pc = "reset"
    /\ progress' = Append(progress, update_progress(0, total))
    /\ pc' = "send"
    /\ UNCHANGED <<threads, directories, disk0, repos, total, checked,
                   updated, unclean, chan, capacity, sender, sent, spawned,
                   joined, worker, disk, printed, pb, task>>

\* for repo in repos { sender.send(repo).ok(); }  One send; it blocks while
\* the channel is full.
Main_Send ==
    /\ pc = "send"
    /\ sent < Len(repos)
    /\ Len(chan) < capacity
    /\ chan' = Append(chan, [id |-> sent + 1, path |-> repos[sent + 1]])
    /\ sent' = sent + 1
    /\ UNCHANGED <<threads, directories, disk0, pc, repos, total, checked,
                   updated, unclean, capacity, sender, spawned, joined,
                   worker, disk, progress, printed, pb, task>>

\* A send loop after which the Sender stays alive.
Main_DropSender_kept ==
    /\ pc = "send"
    /\ sent = Len(repos)
    /\ pc' = "spawn"
    /\ UNCHANGED <<threads, directories, disk0, repos, total, checked,
                   updated, unclean, chan, capacity, sender, sent, spawned,
                   joined, worker, disk, progress, printed, pb, task>>

\* drop(sender)
Main_DropSender ==
    /\ pc = "send"
    /\ sent = Len(repos)
    /\ sender' = FALSE
    /\ pc' = "spawn"
    /\ UNCHANGED <<threads, directories, disk0, repos, total, checked,
                   updated, unclean, chan, capacity, sent, spawned, joined,
                   worker, disk, progress, printed, pb, task>>

\* for _ in 0..args.threads { handles.push(thread::spawn(...)) }  One spawn.
Main_Spawn ==
    /\ pc = "spawn"
    /\ spawned < threads
    /\ worker' = [worker EXCEPT ![spawned + 1] = Thread("recv")]
    /\ spawned' = spawned + 1
    /\ pc' = IF spawned + 1 = threads THEN "join" ELSE "spawn"
    /\ UNCHANGED <<threads, directories, disk0, repos, total, checked,
                   updated, unclean, chan, capacity, sender, sent, joined,
                   disk, progress, printed, pb, task>>

\* A join that does not wait for the thread to end.
Main_Join_nowait ==
    /\ pc = "join"
    /\ joined < spawned
    /\ joined' = joined + 1
    /\ pc' = IF joined + 1 = spawned THEN "finish" ELSE "join"
    /\ UNCHANGED <<threads, directories, disk0, repos, total, checked,
                   updated, unclean, chan, capacity, sender, sent, spawned,
                   worker, disk, progress, printed, pb, task>>

\* for handle in handles { handle.join().ok(); }  One join; it returns when
\* that thread has ended.
Main_Join ==
    /\ pc = "join"
    /\ joined < spawned
    /\ worker[joined + 1].pc = "exited"
    /\ joined' = joined + 1
    /\ pc' = IF joined + 1 = spawned THEN "finish" ELSE "join"
    /\ UNCHANGED <<threads, directories, disk0, repos, total, checked,
                   updated, unclean, chan, capacity, sender, sent, spawned,
                   worker, disk, progress, printed, pb, task>>

\* pb.finish_and_clear()
Main_Finish ==
    /\ pc = "finish"
    /\ pb' = [message |-> <<>>, finished |-> pb.finished + 1]
    /\ pc' = "done_signal"
    /\ UNCHANGED <<threads, directories, disk0, repos, total, checked,
                   updated, unclean, chan, capacity, sender, sent, spawned,
                   joined, worker, disk, progress, printed, task>>

\* print!("\x1b]9;4;0\x07")
Main_DoneSignal ==
    /\ pc = "done_signal"
    /\ progress' = Append(progress, <<"9;4;0">>)
    /\ pc' = "summary"
    /\ UNCHANGED <<threads, directories, disk0, repos, total, checked,
                   updated, unclean, chan, capacity, sender, sent, spawned,
                   joined, worker, disk, printed, pb, task>>

\* println!("Checked: {}, Updated: {}, Unclean: {}", ...)
Main_Summary ==
    /\ pc = "summary"
    /\ printed' = Append(printed, <<"Checked", checked, updated, unclean>>)
    /\ pc' = "exit"
    /\ UNCHANGED <<threads, directories, disk0, repos, total, checked,
                   updated, unclean, chan, capacity, sender, sent, spawned,
                   joined, worker, disk, progress, pb, task>>


(***************************************************************************)
(* A worker thread: the closure of thread::spawn and fn update_repo.       *)
(***************************************************************************)
\* A fetch_add whose increment is lost.
fetch_add_lost(counter) == counter

\* AtomicUsize::fetch_add(1, SeqCst): the new value of the counter.
fetch_add(counter) == counter + 1

\* update_repo returns Ok(()): its locals are dropped and the worker loop
\* goes back to recv.
ReturnOk(w, outcome) ==
    /\ worker' = [worker EXCEPT ![w] = Thread("recv")]
    /\ task' = [task EXCEPT ![worker[w].id].outcome = outcome]

\* A `?` of update_repo returns the error: the worker loop logs it.  The
\* error value itself is opaque to the program and is not modelled.
ReturnErr(w) ==
    /\ worker[w].path \in Fallible
    /\ Cardinality({i \in DOMAIN task : task[i].outcome = "Error"}) < MaxFailures
    /\ worker' = [worker EXCEPT ![w] =
           [Thread("log_error") EXCEPT !.id = worker[w].id,
                                       !.path = worker[w].path]]
    /\ task' = [task EXCEPT ![worker[w].id].outcome = "Error"]

\* A recv that hands out the oldest entry and leaves it in the channel.
W_Recv_peek(w) ==
    /\ worker[w].pc = "recv"
    /\ chan # <<>>
    /\ worker' = [worker EXCEPT ![w] =
           [Thread("fetch_add") EXCEPT !.id = Head(chan).id,
                                       !.path = Head(chan).path]]
    /\ task' = [task EXCEPT ![Head(chan).id].takes = @ + 1]
    /\ UNCHANGED <<threads, directories, disk0, pc, repos, total, checked,
                   updated, unclean, chan, capacity, sender, sent, spawned,
                   joined, disk, progress, printed, pb>>

\* while let Ok(repo_path) = receiver.recv(): takes the oldest entry; on an
\* empty channel it waits while a Sender lives and ends the loop (and the
\* thread) once the channel is disconnected.
W_Recv(w) ==
    /\ worker[w].pc = "recv"
    /\ \/ /\ chan # <<>>
          /\ chan' = Tail(chan)
          /\ worker' = [worker EXCEPT ![w] =
                 [Thread("fetch_add") EXCEPT !.id = Head(chan).id,
                                             !.path = Head(chan).path]]
          /\ task' = [task EXCEPT ![Head(chan).id].takes = @ + 1]
       \/ /\ chan = <<>>
          /\ ~sender
          /\ worker' = [worker EXCEPT ![w].pc = "exited"]
          /\ UNCHANGED <<chan, task>>
    /\ UNCHANGED <<threads, directories, disk0, pc, repos, total, checked,
                   updated, unclean, capacity, sender, sent, spawned, joined,
                   disk, progress, printed, pb>>

\* let checked = stats.checked.fetch_add(1, Ordering::SeqCst) + 1;
W_FetchAdd(w) ==
    /\ worker[w].pc = "fetch_add"
    /\ checked' = fetch_add(checked)
    /\ worker' = [worker EXCEPT ![w].pc = "progress",
                                ![w].checked = fetch_add(checked)]
    /\ UNCHANGED <<threads, directories, disk0, pc, repos, total, updated,
                   unclean, chan, capacity, sender, sent, spawned, joined,
                   disk, progress, printed, pb, task>>

\* update_progress(checked, stats.total);
\* pb.set_message(format!("... ({}/{})", checked, stats.total));
W_UpdateProgress(w) ==
    /\ worker[w].pc = "progress"
    /\ progress' = Append(progress, update_progress(worker[w].checked, total))
    /\ pb' = [pb EXCEPT !.message = <<worker[w].checked, total>>]
    /\ worker' = [worker EXCEPT ![w].pc = "clean"]
    /\ UNCHANGED <<threads, directories, disk0, pc, repos, total, checked,
                   updated, unclean, chan, capacity, sender, sent, spawned,
                   joined, disk, printed, task>>

\* let repo = Repository::open(repo_path).with_context(...)?;
\* let is_clean = is_repo_clean(&repo)?; if !is_clean { ... }
W_CheckClean(w) ==
    /\ worker[w].pc = "clean"
    /\ \/ ReturnErr(w)       \* Repository::open or repo.statuses fails
       \/ /\ worker' = [worker EXCEPT ![w].pc =
                 IF is_repo_clean(disk[worker[w].path]) THEN "head"
                 ELSE "inc_unclean"]
          /\ task' = [task EXCEPT ![worker[w].id].status =
                 IF statuses(disk[worker[w].path], TRUE, FALSE) = {}
                 THEN "empty" ELSE "non-empty"]
    /\ UNCHANGED <<threads, directories, disk0, pc, repos, total, checked,
                   updated, unclean, chan, capacity, sender, sent, spawned,
                   joined, disk, progress, printed, pb>>

\* An inc_unclean that counts the repository as updated too.
inc_unclean_both(w) ==
    /\ unclean' = unclean + 1
    /\ updated' = updated + 1
    /\ task' = [task EXCEPT ![worker[w].id].inc_unclean = @ + 1]

\* fn inc_unclean(&self), called at line 114
inc_unclean(w) ==
    /\ unclean' = fetch_add(unclean)
    /\ task' = [task EXCEPT ![worker[w].id].inc_unclean = @ + 1]
    /\ UNCHANGED updated

\* stats.inc_unclean();
W_IncUnclean(w) ==
    /\ worker[w].pc = "inc_unclean"
    /\ inc_unclean(w)
    /\ worker' = [worker EXCEPT ![w].pc = "print_unclean"]
    /\ UNCHANGED <<threads, directories, disk0, pc, repos, total, checked,
                   chan, capacity, sender, sent, spawned, joined, disk,
                   progress, printed, pb>>

\* pb.println("Repository not clean: ..."); return Ok(());
W_PrintUnclean(w) ==
    /\ worker[w].pc = "print_unclean"
    /\ printed' = Append(printed, <<"Repository not clean", worker[w].path>>)
    /\ ReturnOk(w, "Unclean")
    /\ UNCHANGED <<threads, directories, disk0, pc, repos, total, checked,
                   updated, unclean, chan, capacity, sender, sent, spawned,
                   joined, disk, progress, pb>>

\* let head = repo.head()?; let head_commit = head.peel_to_commit()?;
\* let old_oid = head_commit.id();
W_Head(w) ==
    /\ worker[w].pc = "head"
    /\ \/ ReturnErr(w)       \* repo.head or peel_to_commit fails
       \/ /\ worker' = [worker EXCEPT ![w].pc = "fetch",
                                      ![w].old_oid = disk[worker[w].path].head]
          /\ UNCHANGED task
    /\ UNCHANGED <<threads, directories, disk0, pc, repos, total, checked,
                   updated, unclean, chan, capacity, sender, sent, spawned,
                   joined, disk, progress, printed, pb>>

\* repo.find_remote("origin")?; remote.fetch(&["HEAD"], ...)?;  The fetch
\* brings the remote-tracking ref to the commit the branch has on origin.
W_Fetch(w) ==
    /\ worker[w].pc = "fetch"
    /\ \/ /\ ReturnErr(w)    \* find_remote or fetch fails
          /\ UNCHANGED disk
       \/ /\ disk' = [disk EXCEPT ![worker[w].path].tracking =
                                    disk[worker[w].path].remote]
          /\ worker' = [worker EXCEPT ![w].pc = "compare"]
          /\ task' = [task EXCEPT ![worker[w].id].fetches = @ + 1]
    /\ UNCHANGED <<threads, directories, disk0, pc, repos, total, checked,
                   updated, unclean, chan, capacity, sender, sent, spawned,
                   joined, progress, printed, pb>>

\* A comparison that goes on to the fast-forward although old_oid is the
\* upstream commit.
W_Compare_always_forward(w) ==
    /\ worker[w].pc = "compare"
    /\ \/ /\ ~disk[worker[w].path].upstream
          /\ ReturnOk(w, "NoUpstream")
       \/ /\ disk[worker[w].path].upstream
          /\ worker' = [worker EXCEPT ![w].pc = "set_target",
                           ![w].upstream_oid = disk[worker[w].path].tracking]
          /\ UNCHANGED task
    /\ UNCHANGED <<threads, directories, disk0, pc, repos, total, checked,
                   updated, unclean, chan, capacity, sender, sent, spawned,
                   joined, disk, progress, printed, pb>>

\* A comparison that does not return when the branch has no upstream.
W_Compare_unguarded(w) ==
    /\ worker[w].pc = "compare"
    /\ LET upstream_oid == disk[worker[w].path].tracking IN
       IF worker[w].old_oid = upstream_oid
       THEN ReturnOk(w, "UpToDate")
       ELSE /\ worker' = [worker EXCEPT ![w].pc = "set_target",
                                        ![w].upstream_oid = upstream_oid]
            /\ UNCHANGED task
    /\ UNCHANGED <<threads, directories, disk0, pc, repos, total, checked,
                   updated, unclean, chan, capacity, sender, sent, spawned,
                   joined, disk, progress, printed, pb>>

\* let branch = repo.head()?; ... branch_upstream_name(...).ok();
\* if upstream_name.is_none() { return Ok(()); }
\* let upstream_ref = repo.find_reference(upstream_name_str)?;
\* let upstream_oid = upstream_ref.peel_to_commit()?.id();
\* if old_oid == upstream_oid { return Ok(()); }
W_Compare(w) ==
    /\ worker[w].pc = "compare"
    /\ \/ ReturnErr(w)       \* repo.head or shorthand fails
       \/ /\ ~disk[worker[w].path].upstream
          /\ ReturnOk(w, "NoUpstream")
       \/ /\ disk[worker[w].path].upstream
          /\ ReturnErr(w)    \* as_str, find_reference or peel_to_commit fails
       \/ /\ disk[worker[w].path].upstream
          /\ LET upstream_oid == disk[worker[w].path].tracking IN
             IF worker[w].old_oid = upstream_oid
             THEN ReturnOk(w, "UpToDate")
             ELSE /\ worker' = [worker EXCEPT ![w].pc = "set_target",
                                              ![w].upstream_oid = upstream_oid]
                  /\ UNCHANGED task
    /\ UNCHANGED <<threads, directories, disk0, pc, repos, total, checked,
                   updated, unclean, chan, capacity, sender, sent, spawned,
                   joined, disk, progress, printed, pb>>

\* A set_target that is given the old commit.
W_SetTarget_old(w) ==
    /\ worker[w].pc = "set_target"
    /\ disk' = [disk EXCEPT ![worker[w].path].head = worker[w].old_oid]
    /\ worker' = [worker EXCEPT ![w].pc = "checkout"]
    /\ task' = [task EXCEPT ![worker[w].id].head_writes = @ + 1]
    /\ UNCHANGED <<threads, directories, disk0, pc, repos, total, checked,
                   updated, unclean, chan, capacity, sender, sent, spawned,
                   joined, progress, printed, pb>>

\* let mut reference = repo.head()?;
\* reference.set_target(upstream_oid, "fast-forward merge")?;
W_SetTarget(w) ==
    /\ worker[w].pc = "set_target"
    /\ \/ /\ ReturnErr(w)    \* repo.head or set_target fails
          /\ UNCHANGED disk
       \/ /\ disk' = [disk EXCEPT ![worker[w].path].head = worker[w].upstream_oid]
          /\ worker' = [worker EXCEPT ![w].pc = "checkout"]
          /\ task' = [task EXCEPT ![worker[w].id].head_writes = @ + 1]
    /\ UNCHANGED <<threads, directories, disk0, pc, repos, total, checked,
                   updated, unclean, chan, capacity, sender, sent, spawned,
                   joined, progress, printed, pb>>

\* repo.checkout_head(Some(CheckoutBuilder::default().force()))?;  The
\* working tree is made to match the commit HEAD points to now; untracked
\* and ignored files stay.
W_Checkout(w) ==
    /\ worker[w].pc = "checkout"
    /\ \/ /\ ReturnErr(w)    \* checkout_head fails
          /\ UNCHANGED disk
       \/ /\ disk' = [disk EXCEPT ![worker[w].path].worktree =
                                    disk[worker[w].path].head]
          /\ worker' = [worker EXCEPT ![w].pc = "count"]
          /\ task' = [task EXCEPT ![worker[w].id].worktree_writes = @ + 1]
    /\ UNCHANGED <<threads, directories, disk0, pc, repos, total, checked,
                   updated, unclean, chan, capacity, sender, sent, spawned,
                   joined, progress, printed, pb>>

\* An inc_updated that leaves the counter as it is.
inc_updated_skipped(w) == UNCHANGED <<updated, unclean>>

\* fn inc_updated(&self), called at line 182
inc_updated(w) ==
    /\ updated' = fetch_add(updated)
    /\ UNCHANGED unclean

\* let new_commit = repo.find_commit(upstream_oid)?; ... let diff =
\* repo.diff_tree_to_tree(Some(&old_tree), Some(&new_tree), None)?;
\* let files_changed = diff.deltas().len();
\* stats.inc_updated();
W_CountChanged(w) ==
    /\ worker[w].pc = "count"
    /\ \/ /\ ReturnErr(w)    \* find_commit, tree or diff_tree_to_tree fails
          /\ UNCHANGED <<updated, unclean>>
       \/ LET files_changed == diff_tree_to_tree(TreeOf(worker[w].old_oid),
                                                 TreeOf(worker[w].upstream_oid)) IN
          /\ inc_updated(w)
          /\ worker' = [worker EXCEPT ![w].pc = "print_updated",
                                      ![w].files_changed = files_changed]
          /\ task' = [task EXCEPT ![worker[w].id].inc_updated = @ + 1]
    /\ UNCHANGED <<threads, directories, disk0, pc, repos, total, checked,
                   chan, capacity, sender, sent, spawned, joined, disk,
                   progress, printed, pb>>

\* pb.println("Updated: {} ({} files changed)"); Ok(())
W_PrintUpdated(w) ==
    /\ worker[w].pc = "print_updated"
    /\ printed' = Append(printed,
                         <<"Updated", worker[w].path, worker[w].files_changed>>)
    /\ worker' = [worker EXCEPT ![w] = Thread("recv")]
    /\ task' = [task EXCEPT ![worker[w].id].outcome = "Updated",
                            ![worker[w].id].old = worker[w].old_oid,
                            ![worker[w].id].new = worker[w].upstream_oid,
                            ![worker[w].id].files_changed = worker[w].files_changed]
    /\ UNCHANGED <<threads, directories, disk0, pc, repos, total, checked,
                   updated, unclean, chan, capacity, sender, sent, spawned,
                   joined, disk, progress, pb>>

\* A worker loop that ends at the first error.
W_LogError_break(w) ==
    /\ worker[w].pc = "log_error"
    /\ printed' = Append(printed, <<"Error updating", worker[w].path>>)
    /\ worker' = [worker EXCEPT ![w] = Thread("exited")]
    /\ UNCHANGED <<threads, directories, disk0, pc, repos, total, checked,
                   updated, unclean, chan, capacity, sender, sent, spawned,
                   joined, disk, progress, pb, task>>

\* if let Err(e) = update_repo(...) { pb.println("Error updating {}: {}") }
W_LogError(w) ==
    /\ worker[w].pc = "log_error"
    /\ printed' = Append(printed, <<"Error updating", worker[w].path>>)
    /\ worker' = [worker EXCEPT ![w] = Thread("recv")]
    /\ UNCHANGED <<threads, directories, disk0, pc, repos, total, checked,
                   updated, unclean, chan, capacity, sender, sent, spawned,
                   joined, disk, progress, pb, task>>

Next ==
    \/ Main_CheckThreads
    \/ Main_FindRepos
    \/ Main_NoRepos
    \/ Main_Setup
    \/ Main_InitialProgress
    \/ Main_Send
    \/ Main_DropSender
    \/ Main_Spawn
    \/ Main_Join
    \/ Main_Finish
    \/ Main_DoneSignal
    \/ Main_Summary
    \/ \E w \in Workers : W_Recv(w)
    \/ \E w \in Workers : W_FetchAdd(w)
    \/ \E w \in Workers : W_UpdateProgress(w)
    \/ \E w \in Workers : W_CheckClean(w)
    \/ \E w \in Workers : W_IncUnclean(w)
    \/ \E w \in Workers : W_PrintUnclean(w)
    \/ \E w \in Workers : W_Head(w)
    \/ \E w \in Workers : W_Fetch(w)
    \/ \E w \in Workers : W_Compare(w)
    \/ \E w \in Workers : W_SetTarget(w)
    \/ \E w \in Workers : W_Checkout(w)
    \/ \E w \in Workers : W_CountChanged(w)
    \/ \E w \in Workers : W_PrintUpdated(w)
    \/ \E w \in Workers : W_LogError(w)

Spec == Init /\ [][Next]_vars

\* The percent signals alone: for every total up to MaxTotal, checked runs
\* from 1 to total as the calls of update_repo increment it (line 104) and
\* each value is given to update_progress (line 105); progress holds the
\* last signal.
PercentInit ==
    /\ total \in 1..MaxTotal
    /\ checked = 0
    /\ progress = <<>>
    /\ threads = 1 /\ directories = <<>> /\ pc = "percent" /\ repos = <<>>
    /\ updated = 0 /\ unclean = 0
    /\ chan = <<>> /\ capacity = 0 /\ sender = FALSE /\ sent = 0
    /\ spawned = 0 /\ joined = 0
    /\ worker = [w \in Workers |-> Thread("unspawned")]
    /\ disk = <<>> /\ disk0 = <<>>
    /\ printed = <<>>
    /\ pb = [message |-> <<>>, finished |-> 0]
    /\ task = <<>>

Percent_Update ==
    /\ checked < total
    /\ checked' = fetch_add(checked)
    /\ progress' = <<update_progress(fetch_add(checked), total)>>
    /\ UNCHANGED <<threads, directories, disk0, pc, repos, total, updated,
                   unclean, chan, capacity, sender, sent, spawned, joined,
                   worker, disk, printed, pb, task>>

PercentNext == Percent_Update

PercentSpec == PercentInit /\ [][PercentNext]_vars

\* The run with its threads scheduled: every call returns and a thread that
\* can take a step takes it, so the program does not stop while a step is
\* possible.
LiveSpec == Init /\ [][Next]_vars /\ WF_vars(Next)


(***************************************************************************)
(* Properties.                                                             *)
(***************************************************************************)
Tasks == DOMAIN task

\* Every thread of the pool has been spawned and has ended.
PoolTerminated ==
    /\ threads >= 1
    /\ spawned = threads
    /\ \A w \in 1..spawned : worker[w].pc = "exited"

\* The summary line has been printed.
Summarised == \E k \in DOMAIN printed : printed[k][1] = "Checked"

\* The queue entries whose fetch_add on checked has been performed.
IsTicked(i) ==
    /\ task[i].takes > 0
    /\ \A w \in Workers : worker[w].id = i => worker[w].pc # "fetch_add"

Ticked == {i \in Tasks : IsTicked(i)}

\* The number of lines equal to line that were printed.
Lines(line) == Cardinality({k \in DOMAIN printed : printed[k] = line})

\* C1: with total >= 1 tasks and N >= 1 workers, checked never exceeds
\* total, it counts exactly the tasks whose fetch_add has been performed (no
\* increment is lost), and once all workers have terminated, and so when
\* the summary is printed, checked = total.
C1_CheckedReachesTotal ==
    /\ checked <= total
    /\ checked = Cardinality(Ticked)
    /\ PoolTerminated => checked = total
    /\ \A k \in DOMAIN printed :
         printed[k][1] = "Checked" => printed[k][2] = total /\ checked = total

C1_Witness ==
    /\ Summarised
    /\ threads > 1
    /\ total > 1
    /\ checked = total

\* C2: in every reachable state updated + unclean <= checked; a task
\* increments updated or unclean at most once, never both, and only after
\* its own increment of checked.
C2_UpdatedUncleanWithinChecked ==
    /\ updated + unclean <= checked
    /\ \A i \in Tasks :
         /\ task[i].inc_updated + task[i].inc_unclean <= 1
         /\ task[i].inc_updated + task[i].inc_unclean = 1 => IsTicked(i)
    /\ updated = Cardinality({i \in Tasks : task[i].inc_updated = 1})
    /\ unclean = Cardinality({i \in Tasks : task[i].inc_unclean = 1})

C2_Witness ==
    /\ updated = 1
    /\ unclean = 1
    /\ checked = 2

\* C3: every entry the producer enqueued is received exactly once by
\* exactly one worker: no entry is received twice, no two workers hold the
\* same entry, a received entry is no longer in the channel, and when the
\* pool has terminated every entry has been received.
C3_ConsumedExactlyOnce ==
    /\ \A i \in Tasks :
         /\ task[i].takes <= 1
         /\ task[i].takes = 1 => \A k \in DOMAIN chan : chan[k].id # i
    /\ \A v \in Workers :
         worker[v].id # 0 =>
           \A w \in Workers : v # w => worker[v].id # worker[w].id
    /\ PoolTerminated => chan = <<>> /\ \A i \in Tasks : task[i].takes = 1

C3_Witness ==
    /\ PoolTerminated
    /\ threads > 1
    /\ total > 1
    /\ \A i \in Tasks : task[i].takes = 1

\* C4: a task that ends in Error does not terminate its worker or the
\* pool: a worker ends only on the closed and empty channel, the task is
\* received once and never put back, and its error is logged once with the
\* repository path before the worker receives again.
C4_ErrorKeepsWorkerRunning ==
    /\ \A w \in Workers : worker[w].pc = "exited" => chan = <<>> /\ ~sender
    /\ \A i \in Tasks :
         task[i].outcome = "Error" =>
           /\ task[i].takes = 1
           /\ \A k \in DOMAIN chan : chan[k].id # i
    /\ \A path \in Elements(repos) :
         Lines(<<"Error updating", path>>) =
           Cardinality({i \in Tasks :
                          /\ repos[i] = path
                          /\ task[i].outcome = "Error"
                          /\ \A w \in Workers :
                               ~(worker[w].id = i /\ worker[w].pc = "log_error")})

\* The one worker logged the error of the first task and received the second.
C4_Witness ==
    /\ threads = 1
    /\ total > 1
    /\ task[1].outcome = "Error"
    /\ Lines(<<"Error updating", repos[1]>>) = 1
    /\ task[2].takes = 1

\* C5: the summary is produced only after every worker thread has
\* terminated and shows the settled counters: once it is printed it is the
\* last line, no worker runs, and the counters keep the values it shows;
\* finish is called once, after all joins and before the summary.
C5_SummaryAfterAllWorkers ==
    /\ pb.finished <= 1
    /\ pb.finished = 1 => joined = threads /\ PoolTerminated
    /\ pc \in {"done_signal", "summary"} => pb.finished = 1 /\ ~Summarised
    /\ Summarised =>
         /\ pc = "exit"
         /\ pb.finished = 1
         /\ PoolTerminated
         /\ printed[Len(printed)] = <<"Checked", checked, updated, unclean>>
         /\ Lines(<<"Checked", checked, updated, unclean>>) = 1
         /\ progress[Len(progress)] = <<"9;4;0">>

C5_Witness ==
    /\ Summarised
    /\ threads > 1
    /\ total > 1
    /\ updated + unclean > 0


\* update_repo run alone on a repository in state r, no call failing: the
\* outcome and the state it leaves.
RunAlone(r) ==
    IF statuses(r, TRUE, FALSE) # {} THEN [outcome |-> "Unclean", after |-> r]
    ELSE LET f == [r EXCEPT !.tracking = r.remote] IN
         IF ~f.upstream THEN [outcome |-> "NoUpstream", after |-> f]
         ELSE IF f.head = f.tracking THEN [outcome |-> "UpToDate", after |-> f]
         ELSE [outcome |-> "Updated",
               after |-> [f EXCEPT !.head = f.tracking, !.worktree = f.tracking]]

\* The outcomes of the tasks of paths run one after the other from state d.
RECURSIVE RunInTurn(_, _)
RunInTurn(paths, d) ==
    IF paths = <<>> THEN <<>>
    ELSE LET one == RunAlone(d[Head(paths)]) IN
         <<one.outcome>> \o
         RunInTurn(Tail(paths), [d EXCEPT ![Head(paths)] = one.after])

Outcomes == {"Updated", "UpToDate", "Unclean", "NoUpstream", "Error"}

\* C6: for a fixed task list, duplicates included, and a fixed remote
\* state, a run in which no call fails ends with the same multiset of
\* outcomes, and the same updated and unclean, as the tasks run one after
\* the other, for every worker count and interleaving.
C6_OutcomesIndependentOfWorkers ==
    (Summarised /\ \A i \in Tasks : task[i].outcome # "Error") =>
      LET alone == RunInTurn(repos, disk0) IN
      /\ \A o \in Outcomes :
           Cardinality({i \in Tasks : task[i].outcome = o}) =
           Cardinality({i \in DOMAIN alone : alone[i] = o})
      /\ updated = Cardinality({i \in DOMAIN alone : alone[i] = "Updated"})
      /\ unclean = Cardinality({i \in DOMAIN alone : alone[i] = "Unclean"})

\* C7: HEAD and the working tree are written only by a task that ends
\* Updated, once each; a task that ends Unclean, NoUpstream, UpToDate or
\* Error has written neither.
C7_OnlyUpdatedWritesHead ==
    \A i \in Tasks :
      /\ task[i].outcome \in {"Unclean", "NoUpstream", "UpToDate", "Error"} =>
           task[i].head_writes = 0 /\ task[i].worktree_writes = 0
      /\ task[i].outcome = "Updated" =>
           task[i].head_writes = 1 /\ task[i].worktree_writes = 1

\* C8: no percent signal written to the terminal is smaller than one
\* written before it.
C8_PercentNeverDecreases ==
    \A j, k \in DOMAIN progress :
      (j < k /\ progress[j][1] = "9;4;1" /\ progress[k][1] = "9;4;1") =>
        progress[j][2] <= progress[k][2]

\* C9: when a task has ended Updated, the repository's HEAD is the commit
\* new the task resolved, new differs from the commit old it recorded
\* before the fetch, and the count it reported is the number of paths on
\* which the trees of old and new differ.
C9_FastForwardToUpstream ==
    \A i \in Tasks :
      task[i].outcome = "Updated" =>
        /\ disk[repos[i]].head = task[i].new
        /\ task[i].new # task[i].old
        /\ LET old_tree == TreeOf(task[i].old)
               new_tree == TreeOf(task[i].new)
           IN  task[i].files_changed =
                 Cardinality({f \in Files : old_tree[f] # new_tree[f]})
        /\ Lines(<<"Updated", repos[i], task[i].files_changed>>) >= 1

C9_Witness ==
    \E i \in Tasks :
      /\ task[i].outcome = "Updated"
      /\ task[i].old = "c1"
      /\ task[i].new = "c2"
      /\ task[i].files_changed = 2
      /\ disk[repos[i]].head = "c2"

\* C10: a task whose repository opened and whose status (untracked files
\* included, ignored files excluded) was non-empty performs no fetch, moves
\* no HEAD and checks nothing out, ends Unclean and increments unclean
\* once; a task fetches only after its own clean check found the status
\* empty.
C10_UncleanIsLeftAlone ==
    \A i \in Tasks :
      /\ task[i].status = "non-empty" =>
           /\ task[i].fetches = 0
           /\ task[i].head_writes = 0
           /\ task[i].worktree_writes = 0
           /\ task[i].inc_updated = 0
           /\ task[i].outcome \in {"", "Unclean"}
           /\ task[i].outcome = "Unclean" =>
                /\ task[i].inc_unclean = 1
                /\ Lines(<<"Repository not clean", repos[i]>>) >= 1
           /\ PoolTerminated => task[i].outcome = "Unclean"
      /\ task[i].fetches > 0 => task[i].status = "empty"
      /\ task[i].outcome = "Unclean" => task[i].status = "non-empty"

\* A repository whose only change is an untracked file ended Unclean.
C10_Witness ==
    \E i \in Tasks :
      /\ disk[repos[i]].untracked
      /\ disk[repos[i]].worktree = disk[repos[i]].head
      /\ task[i].outcome = "Unclean"
      /\ unclean = 1
      /\ task[i].fetches = 0

\* The queue entries of repositories that start clean with no upstream
\* configured for their branch.
NoUpstreamTasks ==
    {i \in Tasks : /\ ~disk0[repos[i]].upstream
                   /\ statuses(disk0[repos[i]], TRUE, FALSE) = {}}

\* C11 as stated: every finished task on a clean repository whose branch
\* has no upstream ended NoUpstream, with no error line for its path, no
\* increment of updated or unclean and HEAD and the working tree as they
\* were.
C11_NoUpstreamAlways ==
    \A i \in NoUpstreamTasks :
      task[i].outcome # "" =>
        /\ task[i].outcome = "NoUpstream"
        /\ Lines(<<"Error updating", repos[i]>>) = 0
        /\ task[i].inc_updated = 0 /\ task[i].inc_unclean = 0
        /\ disk[repos[i]].head = disk0[repos[i]].head
        /\ disk[repos[i]].worktree = disk0[repos[i]].worktree

\* C11 amended: a task on a clean repository whose branch has no upstream
\* ends NoUpstream unless one of its calls up to the upstream lookup fails
\* (then it ends Error); when it ends NoUpstream it has fetched once, and no
\* error line is printed for a path none of whose tasks ended Error; in
\* both cases neither updated nor unclean is incremented and HEAD and the
\* working tree stay as they were.
C11_NoUpstreamUnlessCallFails ==
    \A i \in Tasks :
      (~disk0[repos[i]].upstream /\ disk0[repos[i]].worktree = disk0[repos[i]].head
         /\ ~disk0[repos[i]].untracked) =>
        /\ task[i].outcome \in {"", "NoUpstream", "Error"}
        /\ task[i].outcome = "NoUpstream" => task[i].fetches = 1
        /\ task[i].status # "non-empty"
        /\ task[i].inc_updated = 0 /\ task[i].inc_unclean = 0
        /\ task[i].head_writes = 0 /\ task[i].worktree_writes = 0
        /\ disk[repos[i]].head = disk0[repos[i]].head
        /\ disk[repos[i]].worktree = disk0[repos[i]].worktree
        /\ (\A j \in Tasks : repos[j] = repos[i] => task[j].outcome # "Error")
             => Lines(<<"Error updating", repos[i]>>) = 0

\* Two tasks on the repository without upstream both ended NoUpstream.
C11_Witness ==
    /\ PoolTerminated
    /\ Len(repos) = 2
    /\ \A i \in Tasks :
         /\ ~disk0[repos[i]].upstream
         /\ task[i].outcome = "NoUpstream"
         /\ task[i].fetches = 1
    /\ updated = 0 /\ unclean = 0

\* Every repository of the run starts as a completed run leaves it: clean,
\* with an upstream, and HEAD, the remote-tracking ref and the remote
\* branch at the same commit.
AllFastForwarded ==
    \A path \in DOMAIN disk0 :
      /\ disk0[path].upstream
      /\ disk0[path].worktree = disk0[path].head
      /\ ~disk0[path].untracked
      /\ disk0[path].head = disk0[path].remote
      /\ disk0[path].tracking = disk0[path].remote

\* C12: a run against repositories that are all clean with HEAD at their
\* upstream, the remote unchanged, never increments updated or unclean and
\* never changes a HEAD or a working tree, and its summary shows
\* checked = total, updated = 0, unclean = 0.
C12_SecondRunChangesNothing ==
    AllFastForwarded =>
      /\ updated = 0 /\ unclean = 0
      /\ \A path \in DOMAIN disk :
           /\ disk[path].head = disk0[path].head
           /\ disk[path].worktree = disk0[path].worktree
      /\ pc = "exit" /\ total > 0 =>
           /\ checked = total
           /\ printed[Len(printed)] = <<"Checked", total, 0, 0>>

\* Two workers finished a run over two entries of an up-to-date repository.
C12_Witness ==
    /\ AllFastForwarded
    /\ pc = "exit"
    /\ threads = 2
    /\ total = 2
    /\ \A i \in Tasks : task[i].outcome = "UpToDate"

\* The names a directory entry can have in the file system explored.
EntryNames == {".git", "x", "y", "z", "f"}

\* How often input directories nominate path: once per existing input that
\* is path itself, or whose immediate child directory path is, when path
\* directly holds the version-control metadata.
Nominations(path) ==
    Cardinality({k \in DOMAIN directories :
        /\ directories[k] \in Existing
        /\ (path \o "/.git") \in Existing
        /\ \/ path = directories[k]
           \/ /\ path \in Directories
              /\ \E n \in EntryNames : path = directories[k] \o "/" \o n})

\* C13: the list find_repos returns holds each path exactly as often as the
\* input directories nominate it (the input itself if it holds the
\* metadata, each immediate child directory that holds it, nothing below,
\* nothing for an input that does not exist, no deduplication) and nothing
\* else; inputs [A, B] yield exactly A and B/x; total is the length of the
\* list.
C13_DiscoveredAsNominated ==
    /\ pc = "found" =>
         /\ \A k \in DOMAIN repos : repos[k] \in Existing
         /\ \A path \in Existing :
              Cardinality({k \in DOMAIN repos : repos[k] = path}) =
                Nominations(path)
         /\ directories = <<"A", "B">> =>
              Len(repos) = 2 /\ Elements(repos) = {"A", "B/x"}
    /\ pc \in {"reset", "send", "spawn", "join"} => total = Len(repos)

\* B and B/x both nominate B/x, which is listed twice; B/y/z, two levels
\* below B, is not listed.
C13_Witness ==
    /\ pc = "found"
    /\ directories = <<"B", "B/x">>
    /\ repos = <<"B/x", "B/x">>

\* C14: with a thread count of 0 the run goes from its start to the fatal
\* error and nowhere else, whatever the input directories: nothing is
\* discovered or enqueued, no worker is spawned, no counter changes, no
\* progress signal and no line is written; and only a thread count of 0 is
\* fatal.
C14_ZeroThreadsAbortsFirst ==
    /\ threads = 0 =>
         /\ pc \in {"start", "fatal"}
         /\ repos = <<>> /\ task = <<>>
         /\ chan = <<>> /\ sent = 0 /\ capacity = 0
         /\ spawned = 0
         /\ \A w \in Workers : worker[w].pc = "unspawned"
         /\ total = 0 /\ checked = 0 /\ updated = 0 /\ unclean = 0
         /\ progress = <<>> /\ printed = <<>>
    /\ pc = "fatal" => threads = 0

\* The run was given two directories with repositories and ended fatally.
C14_Witness ==
    /\ pc = "fatal"
    /\ threads = 0
    /\ directories = <<"A", "B">>
    /\ find_repos(directories) # <<>>

\* C15: a worker that exists never finds a live Sender, so a recv on the
\* empty queue ends it at once instead of waiting, and a worker has ended
\* only on the closed and empty queue; every run with at least one worker
\* and one task leads to all its workers ended, joined, and the summary
\* printed.
C15_WorkersEndAndSummaryPrinted ==
    /\ [](\A w \in Workers :
            /\ worker[w].pc # "unspawned" => ~sender
            /\ worker[w].pc = "exited" => chan = <<>> /\ ~sender)
    /\ (threads >= 1 /\ total >= 1) ~>
         (PoolTerminated /\ joined = threads /\ Summarised /\ pc = "exit")

\* More workers than tasks: the run of two workers over one task ended.
C15_Witness ==
    /\ threads = 2
    /\ total = 1
    /\ PoolTerminated
    /\ Summarised

\* C16: once the channel exists its capacity is total and its length never
\* exceeds it; while the producer sends, no worker exists, the channel
\* holds exactly the entries sent so far, each once and in order, and the
\* next send finds room; the Sender is dropped only after every entry was
\* sent, workers exist only after that, and nothing is sent afterwards.
C16_ProducerNeverBlocks ==
    /\ total >= 1 => capacity = total /\ total = Len(repos)
    /\ Len(chan) <= capacity
    /\ sent <= Len(repos)
    /\ pc = "send" =>
         /\ sender
         /\ spawned = 0
         /\ chan = [k \in 1..sent |-> [id |-> k, path |-> repos[k]]]
         /\ sent < Len(repos) => Len(chan) < capacity
    /\ (total >= 1 /\ ~sender) => sent = total /\ pc \notin {"reset", "send"}
    /\ spawned >= 1 => ~sender /\ sent = total
    /\ \A k \in DOMAIN chan : chan[k].id <= sent /\ chan[k].path = repos[chan[k].id]

\* Both entries are in the channel, which is full and closed, before the
\* first worker is spawned.
C16_Witness ==
    /\ pc = "spawn"
    /\ spawned = 0
    /\ total = 2
    /\ Len(chan) = 2
    /\ capacity = 2
    /\ ~sender

\* The number of queue entries of path that ended with outcome.
Ended(path, outcome) ==
    Cardinality({i \in Tasks : repos[i] = path /\ task[i].outcome = outcome})

\* The number of lines of the given kind printed for path.
LinesOf(kind, path) ==
    Cardinality({k \in DOMAIN printed :
                   printed[k][1] = kind /\ printed[k][2] = path})

\* C17: when the pool has terminated every task has exactly one outcome,
\* has incremented updated once exactly if it ended Updated and unclean
\* once exactly if it ended Unclean; for every repository the success,
\* warning and error lines printed are one per task that ended Updated,
\* Unclean and Error, and no other line was printed by the workers;
\* updated and unclean are the numbers of tasks that ended Updated and
\* Unclean.
C17_OutcomeReportedOnce ==
    PoolTerminated =>
      /\ \A i \in Tasks :
           /\ task[i].outcome \in Outcomes
           /\ task[i].inc_updated = (IF task[i].outcome = "Updated" THEN 1 ELSE 0)
           /\ task[i].inc_unclean = (IF task[i].outcome = "Unclean" THEN 1 ELSE 0)
      /\ \A path \in Elements(repos) :
           /\ LinesOf("Updated", path) = Ended(path, "Updated")
           /\ LinesOf("Repository not clean", path) = Ended(path, "Unclean")
           /\ LinesOf("Error updating", path) = Ended(path, "Error")
      /\ Len(printed) - (IF Summarised THEN 1 ELSE 0) =
           Cardinality({i \in Tasks :
                          task[i].outcome \in {"Updated", "Unclean", "Error"}})
      /\ updated = Cardinality({i \in Tasks : task[i].outcome = "Updated"})
      /\ unclean = Cardinality({i \in Tasks : task[i].outcome = "Unclean"})

\* A run of two workers ended with one task Updated and one Error.
C17_Witness ==
    /\ PoolTerminated
    /\ threads = 2
    /\ \E i, j \in Tasks :
         /\ task[i].outcome = "Error"
         /\ task[j].outcome = "Updated"
    /\ updated = 1
    /\ Len(printed) = 2

\* The done signal has been written.
DoneSignalled == \E k \in DOMAIN progress : progress[k] = <<"9;4;0">>

\* The number of tasks whose percent signal has been written: those that
\* incremented checked and are past the call of update_progress.
Signalled ==
    checked - Cardinality({w \in Workers : worker[w].pc = "progress"})

\* C18: the first signal is the reset to zero, written before anything is
\* enqueued or dequeued; after it come one percent signal per task that
\* has been dequeued and has reported, total of them at the end; the done
\* signal is written once, as the last signal, after all workers have
\* ended and been joined and after all total percent signals; a run that
\* dispatched tasks ends with it.
C18_ProgressProtocolOrder ==
    /\ (sent > 0 \/ checked > 0) => progress # <<>>
    /\ progress # <<>> =>
         /\ progress[1] = <<"9;4;1", 0>>
         /\ total >= 1
         /\ Len(progress) = 1 + Signalled + (IF DoneSignalled THEN 1 ELSE 0)
         /\ \A k \in 2..(1 + Signalled) : progress[k][1] = "9;4;1"
    /\ DoneSignalled =>
         /\ progress[Len(progress)] = <<"9;4;0">>
         /\ Len(progress) = total + 2
         /\ PoolTerminated /\ joined = threads
    /\ pc = "exit" /\ total >= 1 => DoneSignalled

\* A run of two workers over two tasks wrote reset, two percent signals
\* and done.
C18_Witness ==
    /\ pc = "exit"
    /\ threads = 2
    /\ total = 2
    /\ Len(progress) = 4
    /\ progress[4] = <<"9;4;0">>

\* C19: the percent written for the value checked that a task's increment
\* produced is the integer part of checked * 100 / total; it lies in
\* 0..100 and is 100 for the last task only.
C19_PercentIsIntegerQuotient ==
    progress # <<>> =>
      /\ progress[1][2] = (checked * 100) \div total
      /\ progress[1][2] \in 0..100
      /\ progress[1][2] = 100 <=> checked = total

\* C20: a run with at least one thread whose discovery yields no repository
\* prints the no-repositories message and exits successfully: no queue entry,
\* no worker, no progress signal, no counter change, no spinner and no
\* summary; a percent is computed only with total >= 1.
C20_NoRepositoriesOnlyMessage ==
    /\ (pc = "found" /\ repos = <<>>) =>
          /\ printed = <<>> /\ progress = <<>>
          /\ ~ENABLED Main_Setup
    /\ (pc = "exit" /\ repos = <<>>) =>
          /\ threads >= 1
          /\ printed = << <<"No repositories found">> >>
          /\ progress = <<>>
          /\ chan = <<>> /\ sent = 0 /\ task = <<>>
          /\ spawned = 0 /\ joined = 0
          /\ \A w \in Workers : worker[w].pc = "unspawned"
          /\ total = 0 /\ checked = 0 /\ updated = 0 /\ unclean = 0
          /\ pb = [message |-> <<>>, finished |-> 0]
    /\ (pc = "fatal") => printed = <<>>
    /\ progress # <<>> => total >= 1

C20_Witness ==
    /\ pc = "exit"
    /\ threads >= 1
    /\ directories # <<>>
    /\ repos = <<>>
    /\ printed = << <<"No repositories found">> >>

====
